---------------------------- MODULE Spec2Model ----------------------------
(***************************************************************************)
(* Model of examples/utils.py: utilities layered on the bitarray           *)
(* container (zeros, rindex, strip, count_n, ba2hex, hex2ba, ba2int,       *)
(* int2ba).                                                                *)
(*                                                                         *)
(* A bitarray is a record [bits, endian]; Python index k is bits[k + 1].   *)
(* A call that returns carries exc = ""; a call that raises carries the    *)
(* exception's class name in exc.                                          *)
(***************************************************************************)
EXTENDS Integers, Sequences, FiniteSets, TLC

VARIABLES is_py2, pc, fn, args, locals, ret, exc

vars == <<is_py2, pc, fn, args, locals, ret, exc>>

(***************************************************************************)
(* Bounds of the explored inputs.                                          *)
(***************************************************************************)
\* longest bitarray handed to rindex, strip, count_n and ba2int
MaxLen == 6
\* longest bitarray, in hex digits, handed to ba2hex; longest hexstr
MaxHexDigits == 3
\* largest integer handed to int2ba
MaxInt == 300
\* largest length handed to int2ba
MaxLength == 17

(***************************************************************************)
(* Python values.                                                          *)
(***************************************************************************)
None == -1

\* nothing: no arguments, no locals, no return value
NoValue == [none |-> TRUE]

\* return values, by their Python type
AsInt(v) == [int |-> v]

AsBitarray(v) == [ba |-> v]

AsHexstr(v) == [hex |-> v]

Return(v) == [exc |-> "", val |-> v]

Raise(e) == [exc |-> e, val |-> None]

Max(S) == CHOOSE x \in S : \A y \in S : y <= x

Min(S) == CHOOSE x \in S : \A y \in S : x <= y

RECURSIVE Pow(_, _)
Pow(b, e) == IF e = 0 THEN 1 ELSE b * Pow(b, e - 1)

(***************************************************************************)
(* The bitarray container, as far as utils.py uses it.                     *)
(***************************************************************************)
Endians == {"big", "little"}

\* bitarray(endian=...): the empty bitarray
bitarray_new(endian) == [bits |-> <<>>, endian |-> endian]

\* bitarray(length, endian): every array this constructor can hand back; the
\* constructor allocates the buffer and leaves its bits as they are.
bitarray_uninit(length, endian) ==
    {[bits |-> b, endian |-> endian] : b \in [1..length -> BOOLEAN]}

len(a) == Len(a.bits)

\* a[k], negative k counting from the end
getitem(a, k) == IF k < 0 THEN a.bits[len(a) + k + 1] ELSE a.bits[k + 1]

\* value in a
contains(a, value) == \E k \in 1..len(a) : a.bits[k] = value

\* a.index(value, start, stop) for 0 <= start, stop
index(a, value, start, stop) ==
    LET hits == {k \in start..(Min({stop, len(a)}) - 1) : a.bits[k + 1] = value}
    IN  IF hits = {} THEN Raise("ValueError") ELSE Return(Min(hits))

\* a.count(value, start, stop) for 0 <= start, stop
count(a, value, start, stop) ==
    Cardinality({k \in start..(Min({stop, len(a)}) - 1) : a.bits[k + 1] = value})

\* a slice bound, as Python normalises it
slice_bound(a, k) ==
    IF k < 0 THEN Max({len(a) + k, 0}) ELSE Min({k, len(a)})

\* a[start:stop]
slice(a, start, stop) ==
    [bits   |-> SubSeq(a.bits, slice_bound(a, start) + 1, slice_bound(a, stop)),
     endian |-> a.endian]

\* a + b
concat(a, b) == [bits |-> a.bits \o b.bits, endian |-> a.endian]

\* a.setall(0)
setall0(a) == [bits |-> [k \in 1..len(a) |-> FALSE], endian |-> a.endian]

\* bits2bytes(n)
bits2bytes(n) == (n + 7) \div 8

(***************************************************************************)
(* zeros                                                                   *)
(***************************************************************************)
\* the array zeros returns for length >= 0, whatever the constructor left
zeros_fill(length, endian) ==
    CHOOSE z \in {setall0(a) : a \in bitarray_uninit(length, endian)} : TRUE

zeros(length, endian) ==
    IF length < 0
    THEN Raise("ValueError")
    ELSE Return(zeros_fill(length, endian))

(***************************************************************************)
(* rindex                                                                  *)
(***************************************************************************)
\* faulty variant: the interval starts one short of the end
rindex_init_short(a) == [left |-> 0, right |-> len(a) - 1]

rindex_init(a) == [left |-> 0, right |-> len(a)]

\* the loop condition
rindex_test(a, value, l) == getitem(a, l.right - 1) # value

\* one pass through the loop body
rindex_body(a, value, l) ==
    LET middle == (l.left + l.right) \div 2
    IN  IF index(a, value, middle, l.right).exc = ""
        THEN [l EXCEPT !.left = middle]
        ELSE [l EXCEPT !.right = middle]

rindex_result(l) == l.right - 1

RECURSIVE rindex_loop(_, _, _)
rindex_loop(a, value, l) ==
    IF rindex_test(a, value, l)
    THEN rindex_loop(a, value, rindex_body(a, value, l))
    ELSE rindex_result(l)

rindex(a, value) ==
    IF ~contains(a, value)
    THEN Raise("ValueError")
    ELSE Return(rindex_loop(a, value, rindex_init(a)))

(***************************************************************************)
(* strip                                                                   *)
(***************************************************************************)
\* faulty variant: the slice stops before the last true bit
strip_exclusive_last(a, mode) ==
    IF mode \notin {"left", "right", "both"}
    THEN Raise("ValueError")
    ELSE LET f     == index(a, TRUE, 0, len(a))
             r     == rindex(a, TRUE)
             first == IF mode \in {"left", "both"} THEN f.val ELSE 0
             last  == IF mode \in {"right", "both"} THEN r.val ELSE len(a) - 1
         IN  IF mode \in {"left", "both"} /\ f.exc # ""
             THEN Return(bitarray_new(a.endian))
             ELSE IF mode \in {"right", "both"} /\ r.exc # ""
             THEN Return(bitarray_new(a.endian))
             ELSE Return(slice(a, first, last))

Modes == {"left", "right", "both"}

strip(a, mode) ==
    IF mode \notin Modes
    THEN Raise("ValueError")
    ELSE LET f     == index(a, TRUE, 0, len(a))
             r     == rindex(a, TRUE)
             first == IF mode \in {"left", "both"} THEN f.val ELSE 0
             last  == IF mode \in {"right", "both"} THEN r.val ELSE len(a) - 1
         IN  IF mode \in {"left", "both"} /\ f.exc # ""
             THEN Return(bitarray_new(a.endian))
             ELSE IF mode \in {"right", "both"} /\ r.exc # ""
             THEN Return(bitarray_new(a.endian))
             ELSE Return(slice(a, first, last + 1))

(***************************************************************************)
(* count_n                                                                 *)
(***************************************************************************)
\* cached_count(m): the count, the cache afterwards, and the ValueError
\* max() or min() raises on an empty generator
cached_count(a, cache, m) ==
    IF m \in DOMAIN cache
    THEN [exc |-> "", val |-> cache[m], cache |-> cache]
    ELSE LET lo == {k \in DOMAIN cache : k < m}
             hi == {k \in DOMAIN cache : k > m}
         IN  IF lo = {} \/ hi = {}
             THEN [exc |-> "ValueError", val |-> None, cache |-> cache]
             ELSE LET below == Max(lo)
                      above == Min(hi)
                      c == IF m - below < above - m
                           THEN cache[below] + count(a, TRUE, below, m)
                           ELSE cache[above] - count(a, TRUE, m, above)
                  IN  [exc |-> "", val |-> c, cache |-> cache @@ (m :> c)]

count_n_init(a, n) ==
    [left |-> n, right |-> len(a),
     cache |-> (0 :> 0) @@ (len(a) :> count(a, TRUE, 0, len(a)))]

\* faulty variant: the loop ends on the count alone
count_n_test_count_only(a, n, l) ==
    LET c == cached_count(a, l.cache, l.right)
    IN  [exc   |-> c.exc,
         val   |-> c.exc = "" /\ ~(c.val = n),
         cache |-> c.cache]

\* the loop condition: whether the loop goes on, and the cache afterwards
count_n_test(a, n, l) ==
    LET c == cached_count(a, l.cache, l.right)
    IN  [exc   |-> c.exc,
         val   |-> c.exc = "" /\ ~(c.val = n /\ getitem(a, l.right - 1)),
         cache |-> c.cache]

\* faulty variant: the comparison with n is not strict
count_n_body_le(a, n, l) ==
    LET middle == (l.left + l.right) \div 2
        c      == cached_count(a, l.cache, middle)
    IN  IF c.exc # ""
        THEN [exc |-> c.exc, val |-> l]
        ELSE IF c.val <= n
        THEN [exc |-> "", val |-> [left |-> middle, right |-> l.right, cache |-> c.cache]]
        ELSE [exc |-> "", val |-> [left |-> l.left, right |-> middle, cache |-> c.cache]]

\* one pass through the loop body, from the locals the condition left
count_n_body(a, n, l) ==
    LET middle == (l.left + l.right) \div 2
        c      == cached_count(a, l.cache, middle)
    IN  IF c.exc # ""
        THEN [exc |-> c.exc, val |-> l]
        ELSE IF c.val < n
        THEN [exc |-> "", val |-> [left |-> middle, right |-> l.right, cache |-> c.cache]]
        ELSE [exc |-> "", val |-> [left |-> l.left, right |-> middle, cache |-> c.cache]]

(***************************************************************************)
(* Byte buffers: sequences of integers in 0..255.                          *)
(***************************************************************************)
\* the significance, within its byte, of the bit at offset k of the byte
bit_weight(endian, k) == IF endian = "big" THEN Pow(2, 7 - k) ELSE Pow(2, k)

\* a.tobytes(); the bits past the end of a count as 0
tobytes(a) ==
    LET bit(p) == IF p < len(a) /\ a.bits[p + 1] THEN 1 ELSE 0
        byte(j) == bit(8 * j)     * bit_weight(a.endian, 0)
                 + bit(8 * j + 1) * bit_weight(a.endian, 1)
                 + bit(8 * j + 2) * bit_weight(a.endian, 2)
                 + bit(8 * j + 3) * bit_weight(a.endian, 3)
                 + bit(8 * j + 4) * bit_weight(a.endian, 4)
                 + bit(8 * j + 5) * bit_weight(a.endian, 5)
                 + bit(8 * j + 6) * bit_weight(a.endian, 6)
                 + bit(8 * j + 7) * bit_weight(a.endian, 7)
    IN  [j \in 1..bits2bytes(len(a)) |-> byte(j - 1)]

\* a.frombytes(b): a with the bits of b appended
frombytes(a, b) ==
    LET bit(p) == (b[(p \div 8) + 1] \div bit_weight(a.endian, p % 8)) % 2 = 1
    IN  [bits   |-> a.bits \o [p \in 1..(8 * Len(b)) |-> bit(p - 1)],
         endian |-> a.endian]

\* int.bit_length()
RECURSIVE bit_length(_)
bit_length(i) == IF i = 0 THEN 0 ELSE 1 + bit_length(i \div 2)

\* int.to_bytes(nbytes, byteorder) of an i that fits
to_bytes(i, nbytes, byteorder) ==
    [j \in 1..nbytes |->
        IF byteorder = "big"
        THEN (i \div Pow(256, nbytes - j)) % 256
        ELSE (i \div Pow(256, j - 1)) % 256]

\* int.from_bytes(b, byteorder)
RECURSIVE from_bytes(_, _)
from_bytes(b, byteorder) ==
    IF b = <<>>
    THEN 0
    ELSE IF byteorder = "big"
    THEN 256 * from_bytes(SubSeq(b, 1, Len(b) - 1), byteorder) + b[Len(b)]
    ELSE b[1] + 256 * from_bytes(Tail(b), byteorder)

\* x | y
RECURSIVE bit_or(_, _)
bit_or(x, y) ==
    IF x = 0 THEN y
    ELSE IF y = 0 THEN x
    ELSE (IF x % 2 = 1 \/ y % 2 = 1 THEN 1 ELSE 0) + 2 * bit_or(x \div 2, y \div 2)

\* b reversed
reverse(b) == [j \in 1..Len(b) |-> b[Len(b) + 1 - j]]

(***************************************************************************)
(* binascii                                                                *)
(***************************************************************************)
HexDigits == <<"0", "1", "2", "3", "4", "5", "6", "7",
               "8", "9", "a", "b", "c", "d", "e", "f">>

UpperHexDigits == <<"0", "1", "2", "3", "4", "5", "6", "7",
                    "8", "9", "A", "B", "C", "D", "E", "F">>

is_hex_digit(c) == \E v \in 1..16 : HexDigits[v] = c \/ UpperHexDigits[v] = c

hex_value(c) == (CHOOSE v \in 1..16 : HexDigits[v] = c \/ UpperHexDigits[v] = c) - 1

\* binascii.hexlify(b)
hexlify(b) ==
    [j \in 1..(2 * Len(b)) |->
        IF j % 2 = 1
        THEN HexDigits[(b[(j + 1) \div 2] \div 16) + 1]
        ELSE HexDigits[(b[j \div 2] % 16) + 1]]

\* binascii.unhexlify(s)
unhexlify(s) ==
    IF Len(s) % 2 # 0 \/ \E j \in 1..Len(s) : ~is_hex_digit(s[j])
    THEN Raise("binascii.Error")
    ELSE Return([j \in 1..(Len(s) \div 2) |->
                    16 * hex_value(s[2 * j - 1]) + hex_value(s[2 * j])])

(***************************************************************************)
(* ba2hex, hex2ba                                                          *)
(***************************************************************************)
\* the local a at the assert: the argument, or the argument with the
\* freshly constructed bitarray(4, 'big') appended; junk is that array
ba2hex_aligned(a, junk) == IF len(a) % 8 # 0 THEN concat(a, junk) ELSE a

ba2hex(a, junk) ==
    IF a.endian # "big"
    THEN Raise("ValueError")
    ELSE IF len(a) % 4 # 0
    THEN Raise("ValueError")
    ELSE LET la == len(a)
             a1 == ba2hex_aligned(a, junk)
             s  == hexlify(tobytes(a1))
         IN  IF len(a1) % 8 # 0
             THEN Raise("AssertionError")
             ELSE IF la % 8 # 0
             THEN Return(SubSeq(s, 1, Len(s) - 1))
             ELSE Return(s)

\* faulty variant: the bits of the appended digit stay
hex2ba_keep_padding(s) ==
    LET ls == Len(s)
        s1 == IF ls % 2 # 0 THEN s \o <<"0">> ELSE s
        b  == unhexlify(s1)
        a  == frombytes(bitarray_new("big"), b.val)
    IN  IF b.exc # "" THEN Raise(b.exc) ELSE Return(a)

hex2ba(s) ==
    LET ls == Len(s)
        s1 == IF ls % 2 # 0 THEN s \o <<"0">> ELSE s
        b  == unhexlify(s1)
        a  == frombytes(bitarray_new("big"), b.val)
    IN  IF b.exc # ""
        THEN Raise(b.exc)
        ELSE IF ls % 2 # 0
        THEN Return(slice(a, 0, slice_bound(a, -4)))
        ELSE Return(a)

(***************************************************************************)
(* ba2int, int2ba                                                          *)
(***************************************************************************)
\* the Python 2 loop of ba2int over the bytes c not yet read
RECURSIVE ba2int_py2_loop(_, _, _, _)
ba2int_py2_loop(c, res, j, big_endian) ==
    IF c = <<>>
    THEN res
    ELSE ba2int_py2_loop(Tail(c), bit_or(res, c[1] * Pow(2, 8 * j)),
                         j + (IF big_endian THEN -1 ELSE 1), big_endian)

\* faulty variant: the zeros always go behind the argument
ba2int_aligned_trailing(a, big_endian) ==
    IF len(a) % 8 # 0
    THEN concat(a, zeros(8 - (len(a) % 8), a.endian).val)
    ELSE a

\* the local a at the assert: the argument filled up to whole bytes
ba2int_aligned(a, big_endian) ==
    IF len(a) % 8 # 0
    THEN IF big_endian
         THEN concat(zeros(8 - (len(a) % 8), "big").val, a)
         ELSE concat(a, zeros(8 - (len(a) % 8), "little").val)
    ELSE a

ba2int(a) ==
    IF len(a) = 0
    THEN Raise("ValueError")
    ELSE LET endian     == a.endian
             big_endian == endian = "big"
             a1 == ba2int_aligned(a, big_endian)
             b  == tobytes(a1)
         IN  IF len(a1) % 8 # 0
             THEN Raise("AssertionError")
             ELSE IF is_py2
             THEN Return(ba2int_py2_loop(b, 0,
                             IF big_endian THEN Len(b) - 1 ELSE 0, big_endian))
             ELSE Return(from_bytes(b, endian))

\* the Python 2 loop of int2ba: the bytes of i, least significant first
RECURSIVE int2ba_py2_loop(_, _)
int2ba_py2_loop(i, c) ==
    IF i # 0
    THEN int2ba_py2_loop(i \div 256, Append(c, i % 256))
    ELSE c

\* the bytes of i > 0
int2ba_bytes(i, big_endian, endian) ==
    IF is_py2
    THEN LET c == int2ba_py2_loop(i, <<>>)
         IN  IF big_endian THEN reverse(c) ELSE c
    ELSE to_bytes(i, bits2bytes(bit_length(i)), endian)

\* faulty variant: the bitarray is made with the default endianness
int2ba_bits_default_endian(i, big_endian, endian) ==
    frombytes(bitarray_new("big"), int2ba_bytes(i, big_endian, endian))

\* the bitarray made of the bytes of i > 0
int2ba_bits(i, big_endian, endian) ==
    frombytes(bitarray_new(endian), int2ba_bytes(i, big_endian, endian))

\* faulty variant: a big-endian a keeps its first length bits
int2ba_truncate_head(a, la, length, big_endian) ==
    IF big_endian
    THEN slice(a, 0, length)
    ELSE slice(a, 0, length - la)

\* a cut down to length bits, when la > length
int2ba_truncate(a, la, length, big_endian) ==
    IF big_endian
    THEN slice(a, la - length, len(a))
    ELSE slice(a, 0, length - la)

\* a filled up to length bits, when la < length
int2ba_pad(a, la, length, big_endian) ==
    IF big_endian
    THEN concat(zeros(length - la, "big").val, a)
    ELSE concat(a, zeros(length - la, "little").val)

\* faulty variant: a big-endian a counts with its leading zeros
int2ba_size_whole(a, la, big_endian) ==
    IF big_endian
    THEN la
    ELSE rindex(a, TRUE).val + 1

\* the number of bits i takes in a
int2ba_size(a, la, big_endian) ==
    IF big_endian
    THEN la - index(a, TRUE, 0, len(a)).val
    ELSE rindex(a, TRUE).val + 1

int2ba(i, length, endian) ==
    IF i < 0
    THEN Raise("ValueError")
    ELSE IF length # None /\ length <= 0
    THEN Raise("ValueError")
    ELSE IF endian \notin Endians
    THEN Raise("ValueError")
    ELSE IF i = 0
    THEN zeros(IF length = None THEN 1 ELSE length, endian)
    ELSE LET big_endian == endian = "big"
             a  == int2ba_bits(i, big_endian, endian)
             la == len(a)
             a1 == IF la > length
                   THEN int2ba_truncate(a, la, length, big_endian)
                   ELSE a
             a2 == IF la < length
                   THEN int2ba_pad(a1, la, length, big_endian)
                   ELSE a1
         IN  IF la = length
             THEN Return(a)
             ELSE IF length = None
             THEN strip(a, IF big_endian THEN "left" ELSE "right")
             ELSE IF la > length /\ int2ba_size(a, la, big_endian) > length
             THEN Raise("OverflowError")
             ELSE IF len(a2) # length
             THEN Raise("AssertionError")
             ELSE Return(a2)

(***************************************************************************)
(* Inputs                                                                  *)
(***************************************************************************)
BitSeqs(n) == UNION {[1..k -> BOOLEAN] : k \in 0..n}

BitArrays(n) == {[bits |-> b, endian |-> e] : b \in BitSeqs(n), e \in Endians}

(***************************************************************************)
(* The calls.  A call leaves idle for done; rindex and count_n pass        *)
(* through their loops one iteration at a time.                            *)
(***************************************************************************)
Init ==
    /\ is_py2 \in BOOLEAN
    /\ pc = "idle"
    /\ fn = ""
    /\ args = NoValue
    /\ locals = NoValue
    /\ ret = NoValue
    /\ exc = ""

\* the call is over: it returned r.val, of the given type, or raised r.exc
Finish(r, type) ==
    /\ pc' = "done"
    /\ ret' = IF r.exc # "" THEN NoValue
              ELSE IF type = "int" THEN AsInt(r.val)
              ELSE IF type = "bitarray" THEN AsBitarray(r.val)
              ELSE AsHexstr(r.val)
    /\ exc' = r.exc

Call_zeros ==
    /\ pc = "idle"
    /\ \E length \in -1..MaxLen, endian \in Endians :
        /\ fn' = "zeros"
        /\ args' = [length |-> length, endian |-> endian]
        /\ Finish(zeros(length, endian), "bitarray")
    /\ UNCHANGED <<is_py2, locals>>

Call_rindex ==
    /\ pc = "idle"
    /\ \E a \in BitArrays(MaxLen), value \in BOOLEAN :
        /\ fn' = "rindex"
        /\ args' = [a |-> a, value |-> value]
        /\ IF ~contains(a, value)
           THEN Finish(Raise("ValueError"), "int") /\ UNCHANGED locals
           ELSE /\ pc' = "rindex_loop"
                /\ locals' = rindex_init(a)
                /\ UNCHANGED <<ret, exc>>
    /\ UNCHANGED is_py2

rindex_iterate ==
    /\ pc = "rindex_loop"
    /\ rindex_test(args.a, args.value, locals)
    /\ locals' = rindex_body(args.a, args.value, locals)
    /\ UNCHANGED <<is_py2, pc, fn, args, ret, exc>>

rindex_return ==
    /\ pc = "rindex_loop"
    /\ ~rindex_test(args.a, args.value, locals)
    /\ Finish(Return(rindex_result(locals)), "int")
    /\ UNCHANGED <<is_py2, fn, args, locals>>

Call_strip ==
    /\ pc = "idle"
    /\ \E a \in BitArrays(MaxLen), mode \in Modes \cup {"middle"} :
        /\ fn' = "strip"
        /\ args' = [a |-> a, mode |-> mode]
        /\ Finish(strip(a, mode), "bitarray")
    /\ UNCHANGED <<is_py2, locals>>

Call_count_n ==
    /\ pc = "idle"
    /\ \E a \in BitArrays(MaxLen), n \in -1..(MaxLen + 1) :
        /\ fn' = "count_n"
        /\ args' = [a |-> a, n |-> n]
        /\ IF n < 0
           THEN Finish(Raise("ValueError"), "int") /\ UNCHANGED locals
           ELSE IF n = 0
           THEN Finish(Return(0), "int") /\ UNCHANGED locals
           ELSE IF n > count(a, TRUE, 0, len(a))
           THEN Finish(Raise("ValueError"), "int") /\ UNCHANGED locals
           ELSE /\ pc' = "count_n_loop"
                /\ locals' = count_n_init(a, n)
                /\ UNCHANGED <<ret, exc>>
    /\ UNCHANGED is_py2

count_n_iterate ==
    /\ pc = "count_n_loop"
    /\ LET t == count_n_test(args.a, args.n, locals)
           b == count_n_body(args.a, args.n, [locals EXCEPT !.cache = t.cache])
       IN  /\ t.exc = "" => t.val
           /\ IF t.exc # ""
              THEN Finish(Raise(t.exc), "int") /\ UNCHANGED locals
              ELSE IF b.exc # ""
              THEN Finish(Raise(b.exc), "int") /\ locals' = b.val
              ELSE locals' = b.val /\ UNCHANGED <<pc, ret, exc>>
    /\ UNCHANGED <<is_py2, fn, args>>

count_n_return ==
    /\ pc = "count_n_loop"
    /\ LET t == count_n_test(args.a, args.n, locals)
       IN  /\ t.exc = ""
           /\ ~t.val
           /\ locals' = [locals EXCEPT !.cache = t.cache]
           /\ Finish(Return(locals.right), "int")
    /\ UNCHANGED <<is_py2, fn, args>>

\* hexstr inputs are drawn over these characters
HexChars == {"0", "1", "2", "9", "a", "f", "A", "F", "g"}

HexStrs(n) == UNION {[1..k -> HexChars] : k \in 0..n}

\* big-endian bitarrays of n hex digits or fewer
NibbleArrays(n) ==
    {[bits |-> b, endian |-> "big"] : b \in UNION {[1..(4 * k) -> BOOLEAN] : k \in 0..n}}

Call_ba2hex ==
    /\ pc = "idle"
    /\ \E a \in BitArrays(MaxLen) \cup NibbleArrays(MaxHexDigits),
          junk \in bitarray_uninit(4, "big") :
        /\ fn' = "ba2hex"
        /\ args' = [a |-> a]
        /\ locals' = IF a.endian # "big" \/ len(a) % 4 # 0
                      THEN locals
                      ELSE [a |-> ba2hex_aligned(a, junk), la |-> len(a)]
        /\ Finish(ba2hex(a, junk), "hexstr")
    /\ UNCHANGED is_py2

Call_hex2ba ==
    /\ pc = "idle"
    /\ \E s \in HexStrs(MaxHexDigits) :
        /\ fn' = "hex2ba"
        /\ args' = [s |-> s]
        /\ Finish(hex2ba(s), "bitarray")
    /\ UNCHANGED <<is_py2, locals>>

Call_ba2int ==
    /\ pc = "idle"
    /\ \E a \in BitArrays(MaxLen) :
        /\ fn' = "ba2int"
        /\ args' = [a |-> a]
        /\ Finish(ba2int(a), "int")
    /\ UNCHANGED <<is_py2, locals>>

Call_int2ba ==
    /\ pc = "idle"
    /\ \E i \in -1..MaxInt, length \in {None} \cup 0..MaxLength,
          endian \in Endians \cup {"middle"} :
        /\ fn' = "int2ba"
        /\ args' = [i |-> i, length |-> length, endian |-> endian]
        /\ Finish(int2ba(i, length, endian), "bitarray")
    /\ UNCHANGED <<is_py2, locals>>

NextSearch ==
    \/ Call_rindex
    \/ rindex_iterate
    \/ rindex_return
    \/ Call_strip
    \/ Call_count_n
    \/ count_n_iterate
    \/ count_n_return

SearchSpec == Init /\ [][NextSearch]_vars

NextHex ==
    \/ Call_ba2hex
    \/ Call_hex2ba

HexSpec == Init /\ [][NextHex]_vars

NextInt ==
    \/ Call_zeros
    \/ Call_ba2int
    \/ Call_int2ba

IntSpec == Init /\ [][NextInt]_vars

Next ==
    \/ NextSearch
    \/ NextHex
    \/ NextInt

Spec == Init /\ [][Next]_vars


\* a call that has begun runs on: the interpreter takes the next step of a
\* loop for as long as there is one
LoopStep ==
    \/ rindex_iterate
    \/ rindex_return
    \/ count_n_iterate
    \/ count_n_return

FairSearchSpec == SearchSpec /\ WF_vars(LoopStep)

(***************************************************************************)
(* Reference definitions the properties compare the code against.          *)
(***************************************************************************)
\* the indices of a that hold value
Positions(a, value) == {k \in 0..(len(a) - 1) : a.bits[k + 1] = value}

\* the number of true bits among the first k bits of a
PrefixCount(a, k) == Cardinality({j \in Positions(a, TRUE) : j < k})

\* the smallest prefix length of a that holds n true bits
SmallestPrefix(a, n) == Min({k \in 0..len(a) : PrefixCount(a, k) = n})

\* the integer a stands for: bit k weighs 2^k (little) or 2^(len - 1 - k) (big)
RECURSIVE SumWeights(_, _)
SumWeights(a, K) ==
    IF K = {}
    THEN 0
    ELSE LET k == CHOOSE x \in K : TRUE
         IN  Pow(2, IF a.endian = "big" THEN len(a) - 1 - k ELSE k)
               + SumWeights(a, K \ {k})

Value(a) == SumWeights(a, Positions(a, TRUE))

Finished(f) == pc = "done" /\ fn = f

(***************************************************************************)
(* C1: whenever value occurs in a, rindex(a, value) returns, and returns   *)
(* the largest index that holds value.                                     *)
(***************************************************************************)
C1_rindex_rightmost ==
    (Finished("rindex") /\ Positions(args.a, args.value) # {})
        => exc = "" /\ ret.int = Max(Positions(args.a, args.value))

C1_witness ==
    /\ Finished("rindex")
    /\ exc = ""
    /\ ~args.value
    /\ len(args.a) = MaxLen
    /\ ret.int = 1

(***************************************************************************)
(* C2: for 0 <= n <= count(a), count_n(a, n) returns the smallest i with   *)
(* n true bits in a[0:i]; a[i - 1] is true when n > 0, and i = 0 when      *)
(* n = 0.                                                                  *)
(***************************************************************************)
C2_count_n_smallest_prefix ==
    (Finished("count_n") /\ 0 <= args.n /\ args.n <= PrefixCount(args.a, len(args.a)))
        => /\ exc = ""
           /\ ret.int = SmallestPrefix(args.a, args.n)
           /\ PrefixCount(args.a, ret.int) = args.n
           /\ args.n > 0 => getitem(args.a, ret.int - 1)
           /\ args.n = 0 => ret.int = 0

C2_witness ==
    /\ Finished("count_n")
    /\ exc = ""
    /\ args.n >= 2
    /\ ret.int < len(args.a)
    /\ len(args.a) = MaxLen
    /\ Cardinality(DOMAIN locals.cache) >= 4

(***************************************************************************)
(* C7: strip returns the empty bitarray of a's endianness when a holds no  *)
(* true bit; otherwise 'both' returns a from its first to its last true    *)
(* bit, 'left' from its first true bit on, 'right' up to its last.         *)
(***************************************************************************)
C7_strip_range ==
    (Finished("strip") /\ args.mode \in Modes)
        => LET a    == args.a
               ones == Positions(a, TRUE)
               lo   == IF args.mode \in {"left", "both"} THEN Min(ones) ELSE 0
               hi   == IF args.mode \in {"right", "both"} THEN Max(ones) ELSE len(a) - 1
           IN  /\ exc = ""
               /\ ret.ba.endian = a.endian
               /\ ones = {} => ret.ba.bits = <<>>
               /\ ones # {} => ret.ba.bits = SubSeq(a.bits, lo + 1, hi + 1)
               /\ (ones # {} /\ args.mode = "both")
                    => ret.ba.bits[1] /\ ret.ba.bits[Len(ret.ba.bits)]

C7_witness ==
    /\ Finished("strip")
    /\ args.mode = "both"
    /\ len(args.a) = MaxLen
    /\ len(ret.ba) = 3
    /\ ~args.a.bits[1]
    /\ ~args.a.bits[MaxLen]

(***************************************************************************)
(* C9: the loops of rindex and count_n end.  While rindex loops, value     *)
(* occurs in [left, right) and nowhere from right on; while count_n loops, *)
(* left <= answer <= right and every m that cached_count is asked for is   *)
(* cached or has a cached key below and a cached key above it; every       *)
(* iteration makes right - left smaller.                                   *)
(***************************************************************************)
C9_rindex_bracket ==
    pc = "rindex_loop"
        => /\ \E k \in Positions(args.a, args.value) :
                locals.left <= k /\ k < locals.right
           /\ \A k \in Positions(args.a, args.value) : k < locals.right

C9_count_n_bracket ==
    pc = "count_n_loop"
        => /\ locals.left <= SmallestPrefix(args.a, args.n)
           /\ SmallestPrefix(args.a, args.n) <= locals.right
           /\ \A m \in {locals.right, (locals.left + locals.right) \div 2} :
                \/ m \in DOMAIN locals.cache
                \/ /\ \E k \in DOMAIN locals.cache : k < m
                   /\ \E k \in DOMAIN locals.cache : k > m

C9_shrinks ==
    (pc \in {"rindex_loop", "count_n_loop"} /\ pc' = pc)
        => locals'.right - locals'.left < locals.right - locals.left

C9_loops_terminate ==
    /\ [](C9_rindex_bracket /\ C9_count_n_bracket)
    /\ [][C9_shrinks]_vars
    /\ [](Finished("count_n") /\ args.n >= 1
            /\ args.n <= PrefixCount(args.a, len(args.a)) => exc = "")
    /\ (pc \in {"rindex_loop", "count_n_loop"}) ~> (pc = "done")

C9_witness ==
    /\ pc = "count_n_loop"
    /\ locals.right = locals.left + 1
    /\ Cardinality(DOMAIN locals.cache) >= 4
    /\ count_n_test(args.a, args.n, locals).val

(***************************************************************************)
(* C6: hex2ba(ba2hex(x)) = x for every big-endian x whose length is a      *)
(* multiple of 4, and ba2hex(hex2ba(s)) = s for every lowercase hexstr s.  *)
(***************************************************************************)
C6_hex_round_trip ==
    /\ (Finished("ba2hex") /\ args.a.endian = "big" /\ len(args.a) % 4 = 0)
          => exc = "" /\ hex2ba(ret.hex) = Return(args.a)
    /\ (Finished("hex2ba") /\ \A j \in 1..Len(args.s) :
                                 \E v \in 1..16 : HexDigits[v] = args.s[j])
          => /\ exc = ""
             /\ \A junk \in bitarray_uninit(4, "big") :
                    ba2hex(ret.ba, junk) = Return(args.s)

C6_witness ==
    /\ Finished("ba2hex")
    /\ len(args.a) = 12
    /\ ret.hex = <<"1", "a", "2">>

(***************************************************************************)
(* C10: when the length of the argument of ba2hex is a multiple of 4 and   *)
(* not of 8, the four bits appended to the copy are all false, the last    *)
(* hex digit of the encoded buffer is 0, and the argument is as it was.    *)
(***************************************************************************)
C10_padding_is_zero ==
    (Finished("ba2hex") /\ exc = "" /\ len(args.a) % 8 # 0)
        => /\ \A k \in (locals.la + 1)..(locals.la + 4) : ~locals.a.bits[k]
           /\ hexlify(tobytes(locals.a))[2 * Len(tobytes(locals.a))] = "0"
           /\ slice(locals.a, 0, locals.la) = args.a

(***************************************************************************)
(* C3: ba2int(int2ba(v, endian=e)) = v for every v >= 0 and both e; the    *)
(* bitarray has one false bit for v = 0 and otherwise as many bits as v,   *)
(* the most significant one true.                                          *)
(***************************************************************************)
C3_int_round_trip ==
    (Finished("int2ba") /\ args.i >= 0 /\ args.length = None /\ args.endian \in Endians)
        => /\ exc = ""
           /\ ba2int(ret.ba) = Return(args.i)
           /\ ret.ba.endian = args.endian
           /\ args.i = 0 => ret.ba.bits = <<FALSE>>
           /\ args.i > 0 =>
                /\ Pow(2, len(ret.ba) - 1) <= args.i
                /\ args.i < Pow(2, len(ret.ba))
                /\ getitem(ret.ba, IF args.endian = "big" THEN 0 ELSE -1)

C3_witness ==
    /\ Finished("int2ba")
    /\ args.i = 300
    /\ args.length = None
    /\ args.endian = "little"
    /\ len(ret.ba) = 9

(***************************************************************************)
(* C4: for v >= 0 and L >= 1, int2ba(v, length=L) raises OverflowError     *)
(* exactly when v >= 2^L, and a bitarray it returns holds every true bit   *)
(* of v.                                                                   *)
(***************************************************************************)
C4_overflow_iff_too_wide ==
    (Finished("int2ba") /\ args.i >= 0 /\ args.length >= 1 /\ args.endian \in Endians)
        => /\ exc \in {"", "OverflowError"}
           /\ exc = "OverflowError" <=> args.i >= Pow(2, args.length)
           /\ exc = "" => Value(ret.ba) = args.i

C4_witness ==
    /\ Finished("int2ba")
    /\ args.i = 255
    /\ args.length = 4
    /\ exc = "OverflowError"

(***************************************************************************)
(* C5: for v >= 0, L >= 1 and v < 2^L, int2ba(v, length=L, endian=e)       *)
(* returns a bitarray of L bits and endianness e of which ba2int is v.     *)
(***************************************************************************)
C5_length_and_value ==
    (Finished("int2ba") /\ args.i >= 0 /\ args.length >= 1
        /\ args.i < Pow(2, args.length) /\ args.endian \in Endians)
        => /\ exc = ""
           /\ len(ret.ba) = args.length
           /\ ret.ba.endian = args.endian
           /\ ba2int(ret.ba) = Return(args.i)

C5_witness ==
    /\ Finished("int2ba")
    /\ args.i = 300
    /\ args.length = 12
    /\ args.endian = "big"
    /\ exc = ""

(***************************************************************************)
(* C8: int2ba(10, length=8, endian='little') is the bits 01010000 and      *)
(* int2ba(10, length=8, endian='big') is the bits 00001010.                *)
(***************************************************************************)
C8_bits_of_ten ==
    (Finished("int2ba") /\ args.i = 10 /\ args.length = 8 /\ args.endian \in Endians)
        => /\ exc = ""
           /\ ret.ba.endian = args.endian
           /\ args.endian = "little"
                => ret.ba.bits = <<FALSE, TRUE, FALSE, TRUE, FALSE, FALSE, FALSE, FALSE>>
           /\ args.endian = "big"
                => ret.ba.bits = <<FALSE, FALSE, FALSE, FALSE, TRUE, FALSE, TRUE, FALSE>>

C8_witness ==
    /\ Finished("int2ba")
    /\ args.i = 10
    /\ args.length = 8
    /\ args.endian = "little"
    /\ exc = ""

\* C8 as first stated: the little-endian result is not 01010000
C8_as_stated ==
    (Finished("int2ba") /\ args.i = 10 /\ args.length = 8 /\ args.endian \in Endians)
        => /\ exc = ""
           /\ args.endian = "little"
                => ret.ba.bits # <<FALSE, TRUE, FALSE, TRUE, FALSE, FALSE, FALSE, FALSE>>
           /\ args.endian = "big"
                => ret.ba.bits = <<FALSE, FALSE, FALSE, FALSE, TRUE, FALSE, TRUE, FALSE>>

=============================================================================
